---- MODULE Spec2Model ----
(***************************************************************************)
(* A model of lib/models.py: the distributions Normal and Laplace, the     *)
(* feed-forward network MLP and the iVAE model that composes them.         *)
(*                                                                         *)
(* A tensor is modelled by its shape (a sequence of sizes, as torch.Size), *)
(* the sign of its entries, the operation and the network that produced    *)
(* it, the inputs and the latent draw it depends on, its coefficients as a *)
(* linear combination of the three log-densities of the ELBO, and the      *)
(* exception its computation raised, if any.  Python exceptions are        *)
(* modelled by name; a raised exception ends the call that raised it.      *)
(***************************************************************************)
EXTENDS Integers, Sequences, FiniteSets

VARIABLES
    mlpArgs,   \* the arguments of the MLP(...) call made on its own
    mlp,       \* the MLP it returned, or the exception it raised
    mlpOut,    \* the outcome of the last call of that MLP's forward
    model,     \* the iVAE constructed, or the exception its constructor raised
    res        \* the outcome of the last call of the model's forward or elbo

vars == <<mlpArgs, mlp, mlpOut, model, res>>

(* ------------------------------ bounds -------------------------------- *)

MaxDim == 2        \* widths (latent_dim, data_dim, aux_dim, hidden_dim) range over 1..MaxDim
MaxBatch == 2      \* batch sizes range over 1..MaxBatch
MaxLayers == 3     \* n_layers ranges over 1..MaxLayers

Dims == 1..MaxDim
Batches == 1..MaxBatch
Layers == 1..MaxLayers

(* ----------------------------- evaluation ------------------------------ *)
\* F(v) for v the value of e, and F(x, y) for the values of a and b: the
\* argument expressions are evaluated once.

Let1(e, F(_)) == CHOOSE r \in {F(v) : v \in {e}} : TRUE

Let2(a, b, F(_, _)) == CHOOSE r \in {F(x, y) : x \in {a}, y \in {b}} : TRUE

(* ------------------------------ shapes -------------------------------- *)

Max(a, b) == IF a >= b THEN a ELSE b

\* torch.Tensor.squeeze(): every dimension of size 1 is removed
Squeeze(s) == SelectSeq(s, LAMBDA d : d # 1)

\* a shape left-padded with 1s to n dimensions (how broadcasting aligns shapes)
PadShape(s, n) == [i \in 1..n |-> IF i <= n - Len(s) THEN 1 ELSE s[i - (n - Len(s))]]

\* torch broadcasting: the shapes are aligned on the right; two sizes agree
\* when they are equal or one of them is 1
Broadcastable(s, t) ==
    LET n == Max(Len(s), Len(t))
        ps == PadShape(s, n)
        pt == PadShape(t, n)
    IN  \A i \in 1..n : ps[i] = pt[i] \/ ps[i] = 1 \/ pt[i] = 1

BroadcastShape(s, t) ==
    LET n == Max(Len(s), Len(t))
        ps == PadShape(s, n)
        pt == PadShape(t, n)
    IN  [i \in 1..n |-> Max(ps[i], pt[i])]

(* ------------------------------- signs -------------------------------- *)
\* "neg", "zero", "pos": every entry has that sign; "any": finite entries of
\* unknown sign; "nan": some entry may be NaN or infinite.

SNeg(s) == IF s = "pos" THEN "neg" ELSE IF s = "neg" THEN "pos" ELSE s

SMul(a, b) ==
    IF a = "nan" \/ b = "nan" THEN "nan"
    ELSE IF a = "zero" \/ b = "zero" THEN "zero"
    ELSE IF a = "any" \/ b = "any" THEN "any"
    ELSE IF a = b THEN "pos" ELSE "neg"

SAdd(a, b) ==
    IF a = "nan" \/ b = "nan" THEN "nan"
    ELSE IF a = "zero" THEN b
    ELSE IF b = "zero" THEN a
    ELSE IF a = b THEN a ELSE "any"

SDiv(a, b) ==
    IF a = "nan" \/ b \notin {"pos", "neg"} THEN "nan" ELSE SMul(a, b)

SExp(s) == IF s = "nan" THEN "nan" ELSE "pos"

SSqrt(s) == IF s \in {"pos", "zero"} THEN s ELSE "nan"

SLog(s) == IF s = "pos" THEN "any" ELSE "nan"

SSquare(s) == IF s \in {"pos", "neg"} THEN "pos" ELSE s

(* ------------------------------ tensors ------------------------------- *)

NoLin == <<0, 0, 0>>

Tensor(shape, sign, op, net, deps, draw, lin) ==
    [shape |-> shape, sign |-> sign, op |-> op, net |-> net, deps |-> deps,
     draw |-> draw, lin |-> lin, err |-> ""]

\* the value of an expression whose evaluation raised exception e
Raised(e) ==
    [shape |-> <<>>, sign |-> "nan", op |-> "raise", net |-> "none", deps |-> {},
     draw |-> 0, lin |-> NoLin, err |-> e]

IsRaised(t) == t.err # ""

\* an argument tensor of a call (x or u)
Input(name, shape) == Tensor(shape, "any", "input", "none", {name}, 0, NoLin)

\* an elementwise unary tensor method on a, giving entries of sign `sign`:
\* a new tensor, the argument is not modified
Unary(op, sign, a) == IF IsRaised(a) THEN a ELSE [a EXCEPT !.sign = sign, !.op = op]

\* an elementwise binary tensor method on a and b with broadcasting, giving
\* entries of sign `sign`; RuntimeError when the shapes do not broadcast
Binary(op, sign, lin, a, b) ==
    IF IsRaised(a) THEN a
    ELSE IF IsRaised(b) THEN b
    ELSE IF ~Broadcastable(a.shape, b.shape) THEN Raised("RuntimeError")
    ELSE Tensor(BroadcastShape(a.shape, b.shape), sign, op, "none", a.deps \cup b.deps,
                Max(a.draw, b.draw), lin)

LinAdd(l, m) == [i \in 1..3 |-> l[i] + m[i]]
LinSub(l, m) == [i \in 1..3 |-> l[i] - m[i]]

SSub(a, b) == SAdd(a, SNeg(b))

Add(s, t) ==
    Let2(s, t, LAMBDA a, b : Binary("add", SAdd(a.sign, b.sign), LinAdd(a.lin, b.lin), a, b))
Sub(s, t) ==
    Let2(s, t, LAMBDA a, b : Binary("sub", SSub(a.sign, b.sign), LinSub(a.lin, b.lin), a, b))
Mul(s, t) == Let2(s, t, LAMBDA a, b : Binary("mul", SMul(a.sign, b.sign), NoLin, a, b))
Div(s, t) == Let2(s, t, LAMBDA a, b : Binary("div", SDiv(a.sign, b.sign), NoLin, a, b))
Exp(t) == Let1(t, LAMBDA a : Unary("exp", SExp(a.sign), a))
Sqrt(t) == Let1(t, LAMBDA a : Unary("sqrt", SSqrt(a.sign), a))
Log(t) == Let1(t, LAMBDA a : Unary("log", SLog(a.sign), a))
Pow2(t) == Let1(t, LAMBDA a : Unary("pow", SSquare(a.sign), a))
Abs(t) == Let1(t, LAMBDA a : Unary("abs", SSquare(a.sign), a))
Scale(sign, t) == Let1(t, LAMBDA a : Unary("mul", SMul(sign, a.sign), a))

\* sum(dim=-1): the last dimension is reduced
SumLast(t) ==
    Let1(t, LAMBDA a :
        IF IsRaised(a) THEN a
        ELSE IF Len(a.shape) = 0 THEN [a EXCEPT !.op = "sum"]
        ELSE [a EXCEPT !.shape = SubSeq(a.shape, 1, Len(a.shape) - 1), !.op = "sum"])

\* mean(): a scalar
Mean(t) ==
    Let1(t, LAMBDA a : IF IsRaised(a) THEN a ELSE [a EXCEPT !.shape = <<>>, !.op = "mean"])

\* torch.cat((a, b), 1) of two matrices with the same number of rows
Cat1(s, t) ==
    Let2(s, t, LAMBDA a, b :
        IF IsRaised(a) THEN a
        ELSE IF IsRaised(b) THEN b
        ELSE IF Len(a.shape) # 2 \/ Len(b.shape) # 2 \/ a.shape[1] # b.shape[1]
             THEN Raised("RuntimeError")
        ELSE Tensor(<<a.shape[1], a.shape[2] + b.shape[2]>>, SAdd(a.sign, b.sign), "cat",
                    "none", a.deps \cup b.deps, Max(a.draw, b.draw), NoLin))

(* -------------------------- constructor arguments --------------------- *)

\* hidden_dim: a number, a list, or a value that is neither (None, a tuple)
NumArg(n) == [kind |-> "num", num |-> n, list |-> <<>>]
ListArg(l) == [kind |-> "list", num |-> 0, list |-> l]
OtherArg == [kind |-> "other", num |-> 0, list |-> <<>>]

\* activation: a string, a list of strings, or a value that is neither
StrArg(a) == [kind |-> "str", str |-> a, list |-> <<>>]
StrListArg(l) == [kind |-> "list", str |-> "", list |-> l]
OtherStrArg == [kind |-> "other", str |-> "", list |-> <<>>]

\* the names MLP.__init__ has a branch for
Supported == {"lrelu", "xtanh", "sigmoid", "none"}

\* activation names a caller may pass: the supported ones and one that is not
ActNames == Supported \cup {"relu"}

SeqsUpTo(S, n) == UNION {[1..k -> S] : k \in 0..n}

NumHidden == {NumArg(h) : h \in Dims}
HiddenArgs == NumHidden \cup {ListArg(l) : l \in SeqsUpTo(Dims, MaxLayers - 1)} \cup {OtherArg}

StrActs == {StrArg(a) : a \in ActNames}
ActArgs ==
    StrActs \cup {StrListArg(l) : l \in SeqsUpTo({"lrelu", "none"}, MaxLayers - 1)}
            \cup {OtherStrArg}

(* -------------------------------- MLP --------------------------------- *)

\* nn.Linear(in_features, out_features): weight and bias start at the
\* framework's default initialisation
Linear(i, o) ==
    [in_features |-> i, out_features |-> o, weight |-> "default", bias |-> "default"]

\* an MLP whose construction raised exception e: no object exists
NoMLP(e) ==
    [status |-> e, input_dim |-> 0, output_dim |-> 0, n_layers |-> 0, hidden_dim |-> <<>>,
     has_activation |-> FALSE, activation |-> <<>>, act_f |-> <<>>, fc |-> <<>>]

Repeat(v, n) == [i \in 1..n |-> v]

\* lines 95-97: the attributes set before the argument checks
MLPAttrs(input_dim, output_dim, n_layers) ==
    [status |-> "init", input_dim |-> input_dim, output_dim |-> output_dim,
     n_layers |-> n_layers, hidden_dim |-> <<>>, has_activation |-> FALSE,
     activation |-> <<>>, act_f |-> <<>>, fc |-> <<>>]

\* lines 98-103
SetHiddenDim(self, hidden_dim) ==
    IF self.status # "init" THEN self
    ELSE IF hidden_dim.kind = "num"
    THEN [self EXCEPT !.hidden_dim = Repeat(hidden_dim.num, self.n_layers - 1)]
    ELSE IF hidden_dim.kind = "list" THEN [self EXCEPT !.hidden_dim = hidden_dim.list]
    ELSE NoMLP("ValueError")

\* lines 105-110: a list selector is stored in hidden_dim, and the activation
\* attribute is left unset
SetActivation(self, activation) ==
    IF self.status # "init" THEN self
    ELSE IF activation.kind = "str"
    THEN [self EXCEPT !.activation = Repeat(activation.str, self.n_layers - 1),
                      !.has_activation = TRUE]
    ELSE IF activation.kind = "list" THEN [self EXCEPT !.hidden_dim = activation.list]
    ELSE NoMLP("ValueError")

\* lines 112-123: one function is appended for each supported name; for any
\* other name a ValueError is built but not raised, and nothing is appended.
\* Reading the unset activation attribute raises AttributeError.
BuildActF(self) ==
    IF self.status # "init" THEN self
    ELSE IF ~self.has_activation THEN NoMLP("AttributeError")
    ELSE [self EXCEPT !.act_f = SelectSeq(self.activation, LAMBDA a : a \in Supported)]

\* lines 125-132 with hidden_dim[i] for hidden_dim[i - 1] at line 130
BuildFc_same_index(self) ==
    LET n == self.n_layers
        hd == self.hidden_dim
    IN  IF self.status # "init" THEN self
        ELSE IF n = 1
        THEN [self EXCEPT !.fc = <<Linear(self.input_dim, self.output_dim)>>,
                          !.status = "ok"]
        ELSE IF Len(hd) < n - 1 THEN NoMLP("IndexError")
        ELSE [self EXCEPT
                !.fc = <<Linear(self.input_dim, hd[1])>>
                       \o [i \in 1..(n - 2) |-> Linear(hd[i + 1], hd[i + 1])]
                       \o <<Linear(hd[n - 1], self.output_dim)>>,
                !.status = "ok"]

\* lines 125-132: hidden_dim[0 .. n_layers-2] are read (0-based); a shorter
\* list raises IndexError
BuildFc(self) ==
    LET n == self.n_layers
        hd == self.hidden_dim
    IN  IF self.status # "init" THEN self
        ELSE IF n = 1
        THEN [self EXCEPT !.fc = <<Linear(self.input_dim, self.output_dim)>>,
                          !.status = "ok"]
        ELSE IF Len(hd) < n - 1 THEN NoMLP("IndexError")
        ELSE [self EXCEPT
                !.fc = <<Linear(self.input_dim, hd[1])>>
                       \o [i \in 1..(n - 2) |-> Linear(hd[i], hd[i + 1])]
                       \o <<Linear(hd[n - 1], self.output_dim)>>,
                !.status = "ok"]

MLP_init(input_dim, output_dim, hidden_dim, n_layers, activation) ==
    Let1(MLPAttrs(input_dim, output_dim, n_layers), LAMBDA s0 :
    Let1(SetHiddenDim(s0, hidden_dim), LAMBDA s1 :
    Let1(SetActivation(s1, activation), LAMBDA s2 :
    Let1(BuildActF(s2), LAMBDA s3 : BuildFc(s3)))))

\* nn.Linear.forward: the last dimension of the input must be in_features.
\* The sign of the output depends on the weights and is given by the caller.
LinearApply(layer, t, sign) ==
    Let1(t, LAMBDA h :
        IF IsRaised(h) THEN h
        ELSE IF Len(h.shape) = 0 \/ h.shape[Len(h.shape)] # layer.in_features
             THEN Raised("RuntimeError")
        ELSE [h EXCEPT
                !.shape = SubSeq(h.shape, 1, Len(h.shape) - 1) \o <<layer.out_features>>,
                !.sign = sign, !.op = "linear", !.net = "none"])

\* the functions appended at lines 114-121 (slope > 0)
ActApply(act, t) ==
    Let1(t, LAMBDA a :
        IF act = "sigmoid" THEN Unary("sigmoid", SExp(a.sign), a)
        ELSE IF act = "none" THEN a
        ELSE Unary(act, a.sign, a))

Step(op, idx) == [op |-> op, idx |-> idx]

\* lines 141-145, from layer c (0-based) on; raw is the sign of the output
\* of the last layer.  self._act_f[c] is evaluated before self.fc[c](h).
RECURSIVE MLPLayers(_, _, _, _, _)
MLPLayers(self, h, c, trace, raw) ==
    IF c >= self.n_layers THEN [out |-> h, trace |-> trace]
    ELSE IF c = self.n_layers - 1
    THEN Let1(LinearApply(self.fc[c + 1], h, raw), LAMBDA y :
             IF IsRaised(y) THEN [out |-> y, trace |-> trace]
             ELSE MLPLayers(self, y, c + 1, Append(trace, Step("fc", c)), raw))
    ELSE IF c + 1 > Len(self.act_f) THEN [out |-> Raised("IndexError"), trace |-> trace]
    ELSE Let1(LinearApply(self.fc[c + 1], h, "any"), LAMBDA y :
             IF IsRaised(y) THEN [out |-> y, trace |-> trace]
             ELSE MLPLayers(self, ActApply(self.act_f[c + 1], y), c + 1,
                            trace \o <<Step("fc", c), Step(self.act_f[c + 1], c)>>, raw))

MLP_forward(self, x, raw) ==
    Let2(self, x, LAMBDA net, h : MLPLayers(net, h, 0, <<>>, raw))

(* ---------------------------- distributions --------------------------- *)

\* a distribution instance; id tells instances of one class apart
Dist(cls, id) == [cls |-> cls, id |-> id]

\* the absent argument of a call that takes none in that place
NoneT == Tensor(<<>>, "zero", "none", "none", {}, 0, NoLin)

\* a constant tensor of shape (1,)
Const(sign) == Tensor(<<1>>, sign, "const", "none", {}, 0, NoLin)

\* self._dist.sample(size): the k-th draw, of shape size + batch_shape (1,)
Draw(size, k) == Tensor(size \o <<1>>, "any", "sample", "none", {"eps"}, k, NoLin)

SqueezeT(t) == Let1(t, LAMBDA a : [a EXCEPT !.shape = Squeeze(a.shape)])

\* What a distribution method returns and leaves behind: its result, and
\* its argument tensors as they are after the call (arguments are passed by
\* reference; a method using no in-place operation leaves them as they were),
\* and the tensor it used as the scale: the factor of eps in sample, the
\* divisor of the deviation in log_pdf.
Ret(out, x, mu, v, scale) == [out |-> out, x |-> x, mu |-> mu, v |-> v, scale |-> scale]

\* Normal.sample, lines 34-37
Normal_sample(mu, v, k) ==
    LET eps == SqueezeT(Draw(mu.shape, k))
        scaled == Mul(eps, Sqrt(v))
    IN  Let1(Add(scaled, mu), LAMBDA out : Ret(out, NoneT, mu, v, Sqrt(v)))

\* Normal.log_pdf with v.log_() for v.log(): the logarithm is taken in place
Normal_log_pdf_inplace(x, mu, v) ==
    Let1(SumLast(Scale("neg", Add(Add(Log(Const("pos")), Log(v)),
                                  Div(Pow2(Sub(x, mu)), Log(v))))),
         LAMBDA out : Ret(out, x, mu, Log(v), Log(v)))

\* Normal.log_pdf, lines 39-41; self.c = 2 * pi
Normal_log_pdf(x, mu, v) ==
    Let1(SumLast(Scale("neg", Add(Add(Log(Const("pos")), Log(v)),
                                  Div(Pow2(Sub(x, mu)), v)))),
         LAMBDA out : Ret(out, x, mu, v, v))

\* Laplace.sample, lines 82-85
Laplace_sample(mu, b, k) ==
    LET eps == Draw(mu.shape, k)
        scaled == Mul(eps, b)
    IN  Let1(Add(scaled, mu), LAMBDA out : Ret(out, NoneT, mu, b, b))

\* Laplace.log_pdf, lines 87-89
Laplace_log_pdf(x, mu, b) ==
    Let1(SumLast(Sub(Scale("neg", Log(Scale("pos", b))), Div(Abs(Sub(x, mu)), b))),
         LAMBDA out : Ret(out, x, mu, b, b))

\* method dispatch on the instance's class
Dist_sample(d, mu, v, k) ==
    IF d.cls = "Normal" THEN Normal_sample(mu, v, k) ELSE Laplace_sample(mu, v, k)

Dist_log_pdf(d, x, mu, v) ==
    IF d.cls = "Normal" THEN Normal_log_pdf(x, mu, v) ELSE Laplace_log_pdf(x, mu, v)

\* one entry of the record of distribution calls made during a model call:
\* the instance, the method, the arguments passed, and what it returned (r)
Call(d, op, x, mu, v, r) ==
    [dist |-> d, op |-> op, x |-> x, mu |-> mu, v |-> v, out |-> r.out, scale |-> r.scale]

(* -------------------------------- iVAE -------------------------------- *)

NoModel(e) ==
    [status |-> e, latent_dim |-> 0, data_dim |-> 0, aux_dim |-> 0,
     prior_dist |-> Dist("none", 0), decoder_dist |-> Dist("none", 0),
     encoder_dist |-> Dist("none", 0), prior_mean |-> NoneT, decoder_var |-> NoneT,
     logl |-> NoMLP("none"), f |-> NoMLP("none"), g |-> NoMLP("none"),
     logv |-> NoMLP("none")]

\* weights_init testing for a layer type that a linear layer is not
weights_init_other_type(m) == m

\* weights_init, lines 9-11, on a linear layer
weights_init(m) == [m EXCEPT !.weight = "xavier_uniform"]

\* nn.Module.apply(weights_init) on an MLP: fn is applied to every submodule;
\* the linear layers of self.fc are the ones weights_init acts on
MLP_apply_init(net) ==
    Let1(net, LAMBDA m : [m EXCEPT !.fc = [i \in 1..Len(m.fc) |-> weights_init(m.fc[i])]])

\* the prior / decoder / encoder argument: None or an instance
NoneDist == Dist("None", 0)

OrDefault(arg, id) == IF arg = NoneDist THEN Dist("Normal", id) ELSE arg

\* iVAE.__init__, lines 150-200.  A constructor that raises leaves no model.
iVAE_init(latent_dim, data_dim, aux_dim, prior, decoder, encoder, n_layers, hidden_dim, activation) ==
    Let2(MLP_init(aux_dim, latent_dim, hidden_dim, n_layers, activation),
         MLP_init(latent_dim, data_dim, hidden_dim, n_layers, activation),
         LAMBDA logl, f :
    Let2(MLP_init(data_dim + aux_dim, latent_dim, hidden_dim, n_layers, activation),
         MLP_init(data_dim + aux_dim, latent_dim, hidden_dim, n_layers, activation),
         LAMBDA g, logv :
        IF logl.status # "ok" THEN NoModel(logl.status)
        ELSE IF f.status # "ok" THEN NoModel(f.status)
        ELSE IF g.status # "ok" THEN NoModel(g.status)
        ELSE IF logv.status # "ok" THEN NoModel(logv.status)
        ELSE [status |-> "ok", latent_dim |-> latent_dim, data_dim |-> data_dim,
              aux_dim |-> aux_dim,
              prior_dist |-> OrDefault(prior, 1),
              decoder_dist |-> OrDefault(decoder, 2),
              encoder_dist |-> OrDefault(encoder, 3),
              prior_mean |-> Const("zero"),
              decoder_var |-> Const("pos"),
              logl |-> MLP_apply_init(logl), f |-> MLP_apply_init(f),
              g |-> MLP_apply_init(g), logv |-> MLP_apply_init(logv)]))

\* the output of network `name`
Net(name, t) == Let1(t, LAMBDA a : IF IsRaised(a) THEN a ELSE [a EXCEPT !.net = name])

\* encoder_params returning logv for logv.exp()
encoder_params_noexp(self, x, u, rawv) ==
    Let1(Cat1(x, u), LAMBDA xu :
        LET g == Net("g", MLP_forward(self.g, xu, "any").out)
            logv == Net("logv", MLP_forward(self.logv, xu, rawv).out)
        IN  <<g, logv>>)

\* lines 202-206; rawv is the sign of the output of logv
encoder_params(self, x, u, rawv) ==
    Let1(Cat1(x, u), LAMBDA xu :
        LET g == Net("g", MLP_forward(self.g, xu, "any").out)
            logv == Net("logv", MLP_forward(self.logv, xu, rawv).out)
        IN  <<g, Exp(logv)>>)

\* lines 208-210
decoder_params(self, s) ==
    LET f == Net("f", MLP_forward(self.f, s, "any").out)
    IN  <<f, self.decoder_var>>

\* lines 212-214; rawl is the sign of the output of logl
prior_params(self, u, rawl) ==
    LET logl == Net("logl", MLP_forward(self.logl, u, rawl).out)
    IN  <<self.prior_mean, Exp(logl)>>

NoParams == <<NoneT, NoneT>>

\* what a call of forward or elbo leaves: the exception raised ("ok" if none),
\* the values returned, the distribution calls made, the number of latent
\* draws, and the model's constant tensors as they are after the call
Outcome(status, dp, ep, z, pp, value, calls, draws, prior_mean, decoder_var) ==
    [status |-> status, decoder_params |-> dp, encoder_params |-> ep, z |-> z,
     prior_params |-> pp, value |-> value, calls |-> calls, draws |-> draws,
     prior_mean |-> prior_mean, decoder_var |-> decoder_var]

Raise(e, calls, draws, prior_mean, decoder_var) ==
    Outcome(e, NoParams, NoParams, NoneT, NoParams, NoneT, calls, draws, prior_mean,
            decoder_var)

\* iVAE.forward, lines 216-221, after d0 earlier draws
forward(self, x, u, rawl, rawv, d0) ==
    Let2(prior_params(self, u, rawl), encoder_params(self, x, u, rawv), LAMBDA pp, ep :
        IF IsRaised(pp[2])
        THEN Raise(pp[2].err, <<>>, d0, self.prior_mean, self.decoder_var)
        ELSE IF IsRaised(ep[1])
        THEN Raise(ep[1].err, <<>>, d0, self.prior_mean, self.decoder_var)
        ELSE IF IsRaised(ep[2])
        THEN Raise(ep[2].err, <<>>, d0, self.prior_mean, self.decoder_var)
        ELSE
    Let1(Dist_sample(self.encoder_dist, ep[1], ep[2], d0 + 1), LAMBDA s :
        LET z == s.out
            calls == <<Call(self.encoder_dist, "sample", NoneT, ep[1], ep[2], s)>>
        IN  IF IsRaised(z)
            THEN Raise(z.err, calls, d0 + 1, self.prior_mean, self.decoder_var)
            ELSE
    Let1(decoder_params(self, z), LAMBDA dp :
        IF IsRaised(dp[1])
        THEN Raise(dp[1].err, calls, d0 + 1, self.prior_mean, self.decoder_var)
        ELSE Outcome("ok", dp, <<s.mu, s.v>>, z, pp, NoneT, calls, d0 + 1,
                     self.prior_mean, self.decoder_var))))

\* the value bound to one of log_px_z, log_pz_u, log_qz_xu
Named(t, l) == Let1(t, LAMBDA a : IF IsRaised(a) THEN a ELSE [a EXCEPT !.lin = l])

\* iVAE.elbo, lines 223-228
elbo(self, x, u, rawl, rawv) ==
    Let1(forward(self, x, u, rawl, rawv, 0), LAMBDA fw :
        IF fw.status # "ok" THEN fw
        ELSE
    LET dp == fw.decoder_params
        ep == fw.encoder_params
        pp == fw.prior_params
    IN
    Let1(Dist_log_pdf(self.decoder_dist, x, dp[1], dp[2]), LAMBDA px :
        LET c1 == Append(fw.calls,
                         Call(self.decoder_dist, "log_pdf", x, dp[1], dp[2], px))
        IN  IF IsRaised(px.out) THEN Raise(px.out.err, c1, fw.draws, pp[1], px.v)
            ELSE
    Let1(Dist_log_pdf(self.encoder_dist, fw.z, ep[1], ep[2]), LAMBDA qz :
        LET c2 == Append(c1, Call(self.encoder_dist, "log_pdf", fw.z, ep[1], ep[2], qz))
        IN  IF IsRaised(qz.out) THEN Raise(qz.out.err, c2, fw.draws, pp[1], px.v)
            ELSE
    Let1(Dist_log_pdf(self.prior_dist, qz.x, pp[1], pp[2]), LAMBDA pz :
        LET c3 == Append(c2, Call(self.prior_dist, "log_pdf", qz.x, pp[1], pp[2], pz))
            log_px_z == Named(px.out, <<1, 0, 0>>)
            log_qz_xu == Named(qz.out, <<0, 0, 1>>)
            log_pz_u == Named(pz.out, <<0, 1, 0>>)
        IN  IF IsRaised(pz.out) THEN Raise(pz.out.err, c3, fw.draws, pz.mu, px.v)
            ELSE
    Let1(Mean(Sub(Add(log_px_z, log_pz_u), log_qz_xu)), LAMBDA value :
        IF IsRaised(value) THEN Raise(value.err, c3, fw.draws, pz.mu, px.v)
        ELSE Outcome("ok", dp, ep, pz.x, pp, value, c3, fw.draws, pz.mu, px.v))))))

(* ------------------------------ the program --------------------------- *)

RawSigns == {"neg", "zero", "pos"}

NoArgs ==
    [input_dim |-> 0, output_dim |-> 0, hidden_dim |-> OtherArg, n_layers |-> 0,
     activation |-> OtherStrArg]

NoOut == [status |-> "none", batch |-> 0, out |-> NoneT, trace |-> <<>>]

NoRes ==
    [op |-> "none", batch |-> 0, x |-> NoneT, u |-> NoneT,
     out |-> Raise("none", <<>>, 0, NoneT, NoneT)]

Init ==
    /\ mlpArgs = NoArgs
    /\ mlp = NoMLP("none")
    /\ mlpOut = NoOut
    /\ model = NoModel("none")
    /\ res = NoRes

\* net = MLP(input_dim, output_dim, hidden_dim, n_layers, activation), with
\* hidden_dim drawn from HS and activation from AS.  A behaviour follows one
\* such call and the object it returns.
NewMLP(HS, AS) ==
    /\ mlp.status = "none"
    /\ \E i \in Dims, o \in Dims, n \in Layers, hd \in HS, act \in AS :
          /\ mlpArgs' = [input_dim |-> i, output_dim |-> o, hidden_dim |-> hd,
                         n_layers |-> n, activation |-> act]
          /\ mlp' = MLP_init(i, o, hd, n, act)
          /\ mlpOut' = NoOut
    /\ UNCHANGED <<model, res>>

\* net(x) on a batch x of shape (B, input_dim)
CallMLP ==
    /\ mlp.status = "ok"
    /\ \E B \in Batches, raw \in RawSigns :
          \E r \in {MLP_forward(mlp, Input("x", <<B, mlp.input_dim>>), raw)} :
              mlpOut' = [status |-> IF IsRaised(r.out) THEN r.out.err ELSE "ok",
                         batch |-> B, out |-> r.out, trace |-> r.trace]
    /\ UNCHANGED <<mlpArgs, mlp, model, res>>

\* the arguments iVAE(...) is called with: the encoder left out or a Laplace
\* instance, hidden_dim a number or neither form, activation a supported
\* name, an unsupported one, a list, or neither form
Encoders == {NoneDist, Dist("Laplace", 4)}
ModelHidden == {NumArg(MaxDim), OtherArg}
ModelActs == {StrArg("lrelu"), StrArg("relu"), StrListArg(<<"lrelu">>), OtherStrArg}

\* model = iVAE(latent_dim, data_dim, aux_dim, encoder=..., n_layers=...,
\*              hidden_dim=..., activation=...)
NewIVAE(ES, HS, AS) ==
    /\ model.status = "none"
    /\ \E l \in Dims, d \in Dims, a \in Dims, enc \in ES, n \in Layers, hd \in HS,
          act \in AS :
          model' = iVAE_init(l, d, a, NoneDist, NoneDist, enc, n, hd, act)
    /\ UNCHANGED <<mlpArgs, mlp, mlpOut, res>>

\* the model's constant tensors are returned by reference: what a call leaves
\* in them is what the model holds afterwards
After(self, o) == [self EXCEPT !.prior_mean = o.prior_mean, !.decoder_var = o.decoder_var]

\* model.forward(x, u) on x of shape (B, data_dim) and u of shape (B, aux_dim)
Forward ==
    /\ model.status = "ok"
    /\ \E B \in Batches, rawl \in RawSigns, rawv \in RawSigns :
          \E x \in {Input("x", <<B, model.data_dim>>)},
             u \in {Input("u", <<B, model.aux_dim>>)} :
             \E o \in {forward(model, x, u, rawl, rawv, 0)} :
                /\ res' = [op |-> "forward", batch |-> B, x |-> x, u |-> u, out |-> o]
                /\ model' = After(model, o)
    /\ UNCHANGED <<mlpArgs, mlp, mlpOut>>

\* model.elbo(x, u) on x of shape (B, data_dim) and u of shape (B, aux_dim)
Elbo ==
    /\ model.status = "ok"
    /\ \E B \in Batches, rawl \in RawSigns, rawv \in RawSigns :
          \E x \in {Input("x", <<B, model.data_dim>>)},
             u \in {Input("u", <<B, model.aux_dim>>)} :
             \E o \in {elbo(model, x, u, rawl, rawv)} :
                /\ res' = [op |-> "elbo", batch |-> B, x |-> x, u |-> u, out |-> o]
                /\ model' = After(model, o)
    /\ UNCHANGED <<mlpArgs, mlp, mlpOut>>

\* the iVAE and its two entry points
Next ==
    \/ NewIVAE(Encoders, ModelHidden, ModelActs)
    \/ Forward
    \/ Elbo

Spec == Init /\ [][Next]_vars

\* an MLP on its own
NextMLP ==
    \/ NewMLP(HiddenArgs, ActArgs)
    \/ CallMLP

SpecMLP == Init /\ [][NextMLP]_vars

\* construction alone: an MLP on its own beside an iVAE
NextInit ==
    \/ NewMLP(NumHidden, {StrArg("lrelu")})
    \/ NewIVAE({NoneDist}, NumHidden, {StrArg("lrelu")})

SpecInit == Init /\ [][NextInit]_vars

(* ------------------------- properties of the iVAE --------------------- *)

\* the last call was model.<op>(x, u) and reached the encoder's sample
Sampled(op, cls) ==
    /\ res.op = op
    /\ model.encoder_dist.cls = cls
    /\ Len(res.out.calls) >= 1

\* the call returned, with a z of shape (batch, latent_dim) that its sample
\* call returned with the shape of mu
ReturnsLatent ==
    /\ res.out.status = "ok"
    /\ res.out.z.shape = <<res.batch, model.latent_dim>>
    /\ res.out.calls[1].op = "sample"
    /\ res.out.calls[1].out.shape = res.out.calls[1].mu.shape

\* C1: with the default Normal encoder, forward(x, u) on a batch of any size
\* returns a z of shape (batch, latent_dim): Normal.sample(mu, v) returns a
\* tensor of the shape of mu.
C1_NormalForwardShape == Sampled("forward", "Normal") => ReturnsLatent

\* C10: with encoder=Laplace(), forward(x, u) returns a z of shape
\* (batch, latent_dim): Laplace.sample(mu, b) returns a tensor of the shape
\* of mu.
C10_LaplaceForwardShape == Sampled("forward", "Laplace") => ReturnsLatent

\* the distribution calls of an elbo call that returned, in order: one
\* sample and three log_pdf, each at the arguments of that one forward pass
ConsistentCalls(o) ==
    LET c == o.calls
        dp == o.decoder_params
        ep == o.encoder_params
        pp == o.prior_params
    IN  /\ o.draws = 1
        /\ Len(c) = 4
        /\ c[1].op = "sample" /\ c[1].dist = model.encoder_dist
        /\ c[1].mu = ep[1] /\ c[1].v = ep[2] /\ c[1].out = o.z
        /\ o.z.draw = 1
        /\ ep[1].net = "g" /\ ep[1].deps = {"x", "u"}
        /\ ep[2].net = "logv" /\ ep[2].deps = {"x", "u"}
        /\ c[2].op = "log_pdf" /\ c[2].dist = model.decoder_dist
        /\ c[2].x = res.x /\ c[2].mu = dp[1] /\ c[2].v = dp[2]
        /\ dp = decoder_params(model, o.z)
        /\ c[3].op = "log_pdf" /\ c[3].dist = model.encoder_dist
        /\ c[3].x = o.z /\ c[3].mu = ep[1] /\ c[3].v = ep[2]
        /\ c[4].op = "log_pdf" /\ c[4].dist = model.prior_dist
        /\ c[4].x = o.z /\ c[4].mu = pp[1] /\ c[4].v = pp[2]
        /\ pp[1] = model.prior_mean
        /\ pp[2].net = "logl" /\ pp[2].deps = {"u"}

\* the value returned is the mean over the batch of
\* log_px_z + log_pz_u - log_qz_xu of those calls: a scalar
BatchMeanOfElbo(o) ==
    /\ o.value.op = "mean"
    /\ o.value.shape = <<>>
    /\ o.value.lin = <<1, 1, -1>>
    /\ o.value.draw = o.z.draw

\* C2: elbo(x, u) performs one forward pass with one latent draw, evaluates
\* the decoder, encoder and prior log-densities at the arguments of that
\* pass with the same z, and returns the batch mean of
\* log_px_z + log_pz_u - log_qz_xu together with that z.
C2_ElboOnePass ==
    Sampled("elbo", "Normal") =>
        /\ res.out.status = "ok"
        /\ ConsistentCalls(res.out)
        /\ BatchMeanOfElbo(res.out)

\* every call of elbo that returns has made its calls consistently: where
\* C2_ElboOnePass fails, elbo raised
ElboConsistentWhenReturned ==
    (res.op = "elbo" /\ res.out.status = "ok") =>
        ConsistentCalls(res.out) /\ BatchMeanOfElbo(res.out)

\* the scale argument of a call is strictly positive and is the exponential
\* of the output of network `net`
ExpOf(v, net) == v.sign = "pos" /\ v.op = "exp" /\ v.net = net

C7_CallsKeepModel ==
    /\ [][model.status = "ok" => model' = model]_vars
    /\ [](model.status = "ok" =>
            /\ model.decoder_var = Const("pos")
            /\ model.prior_mean = Const("zero")
            /\ model.prior_dist = Dist("Normal", 1)
            /\ model.decoder_dist = Dist("Normal", 2))

C7_Witness ==
    /\ res.op = "elbo"
    /\ res.out.status = "ok"
    /\ model.encoder_dist.cls = "Normal"

(* -------------------------- properties of the MLP --------------------- *)

Constructed == mlpArgs.n_layers >= 1

Called == mlpOut.status # "none"

\* hidden_dim is a number, or a list long enough for n_layers
UsableHidden ==
    \/ mlpArgs.hidden_dim.kind = "num"
    \/ /\ mlpArgs.hidden_dim.kind = "list"
       /\ Len(mlpArgs.hidden_dim.list) >= mlpArgs.n_layers - 1

\* activation is a list of n_layers - 1 supported names
SupportedList ==
    /\ mlpArgs.activation.kind = "list"
    /\ Len(mlpArgs.activation.list) = mlpArgs.n_layers - 1
    /\ \A i \in 1..Len(mlpArgs.activation.list) : mlpArgs.activation.list[i] \in Supported

\* C3: MLP(...) raises ValueError exactly when hidden_dim or activation is
\* neither of its two accepted forms, and with a list of n_layers - 1
\* supported activation names and a usable hidden_dim it returns a network.
C3_ArgumentForms ==
    Constructed =>
        /\ mlp.status = "ValueError" <=>
              (mlpArgs.hidden_dim.kind = "other" \/ mlpArgs.activation.kind = "other")
        /\ (SupportedList /\ UsableHidden) => mlp.status = "ok"

\* what forward does on an MLP of n layers whose activations are `acts`:
\* layer c, then activation c, for each layer but the last
RECURSIVE LayerSteps(_, _, _)
LayerSteps(acts, n, c) ==
    IF c >= n THEN <<>>
    ELSE IF c = n - 1 THEN <<Step("fc", c)>>
    ELSE <<Step("fc", c), Step(acts[c + 1], c)>> \o LayerSteps(acts, n, c + 1)

\* the layers are applied in order, each but the last followed by the
\* activation configured for it
AppliesLayers ==
    /\ mlpOut.status = "ok"
    /\ mlpOut.trace = LayerSteps(mlp.activation, mlp.n_layers, 0)
    /\ mlpOut.out.shape = <<mlpOut.batch, mlp.output_dim>>
    /\ mlpOut.out.op = "linear"

\* C4: an MLP that was constructed has n_layers linear layers, and forward
\* applies them in order, with the configured activation after each but the
\* last and none after the last.
C4_LayersAndActivations ==
    mlp.status = "ok" =>
        /\ Len(mlp.fc) = mlp.n_layers
        /\ Called => AppliesLayers

\* wherever forward returns, it has applied the layers so: where
\* C4_LayersAndActivations fails, forward raised
LayersAppliedWhenReturned ==
    mlp.status = "ok" =>
        /\ Len(mlp.fc) = mlp.n_layers
        /\ mlpOut.status = "ok" => AppliesLayers

\* C5: constructed with a list hidden_dim of length n_layers - 1, layer i has
\* output width hidden_dim[i] and layer i + 1 input width hidden_dim[i]; the
\* first layer has input width input_dim and the last output width
\* output_dim.
C5_HiddenWidthsChain ==
    (/\ mlp.status = "ok"
     /\ mlpArgs.hidden_dim.kind = "list"
     /\ Len(mlpArgs.hidden_dim.list) = mlpArgs.n_layers - 1) =>
        LET n == mlpArgs.n_layers
            hd == mlpArgs.hidden_dim.list
        IN  /\ Len(mlp.fc) = n
            /\ mlp.fc[1].in_features = mlpArgs.input_dim
            /\ mlp.fc[n].out_features = mlpArgs.output_dim
            /\ \A i \in 1..(n - 1) :
                  /\ mlp.fc[i].out_features = hd[i]
                  /\ mlp.fc[i + 1].in_features = hd[i]

C5_Witness ==
    /\ mlp.status = "ok"
    /\ mlpArgs.hidden_dim.kind = "list"
    /\ mlpArgs.n_layers = 3
    /\ Len(mlpArgs.hidden_dim.list) = 2
    /\ mlpArgs.hidden_dim.list[1] # mlpArgs.hidden_dim.list[2]
    /\ mlpArgs.input_dim # mlpArgs.hidden_dim.list[1]

\* C9: an MLP whose construction returned has n_layers - 1 activation
\* functions, whatever names were given, so forward never indexes a missing
\* one.
C9_ActivationCount ==
    mlp.status = "ok" =>
        /\ Len(mlp.act_f) = mlp.n_layers - 1
        /\ mlpOut.status # "IndexError"

(* ------------------------ weight initialisation ----------------------- *)

LayersHave(net, w) ==
    \A i \in 1..Len(net.fc) : net.fc[i].weight = w /\ net.fc[i].bias = "default"

ModelNets == <<model.logl, model.f, model.g, model.logv>>

ModelXavier ==
    model.status = "ok" =>
        \A k \in 1..4 :
            /\ Len(ModelNets[k].fc) = ModelNets[k].n_layers
            /\ LayersHave(ModelNets[k], "xavier_uniform")

\* C8 as stated: once construction has finished every weight matrix is
\* Xavier-initialised, of an MLP constructed on its own as of the four MLPs
\* of an iVAE; biases are as the framework set them.
C8_AllXavier ==
    /\ mlp.status = "ok" => LayersHave(mlp, "xavier_uniform")
    /\ ModelXavier

\* C8 as the code has it: the weight matrices of the four MLPs of an iVAE
\* are Xavier-initialised once the iVAE is constructed; those of an MLP
\* constructed on its own keep the framework's default initialisation;
\* biases are as the framework set them.
C8_XavierInModelOnly ==
    /\ mlp.status = "ok" => LayersHave(mlp, "default")
    /\ ModelXavier

C8_Witness ==
    /\ mlp.status = "ok"
    /\ mlp.n_layers > 1
    /\ model.status = "ok"
    /\ model.f.n_layers > 1

====
